---- MODULE Spec2Model ----
(***************************************************************************)
(* State-machine model of the NUEL AI chat backend (src/server.js holds    *)
(* two server variants back to back, src/unnamed/part_001 a third).        *)
(*                                                                         *)
(*   "gated"  : src/server.js lines 1-601, load-gated server               *)
(*   "cached" : src/server.js lines 602-1200, server with the TTL cache    *)
(*   "openai" : src/unnamed/part_001, stateless proxy                      *)
(*                                                                         *)
(* Every await of a handler is a yield point of the single-threaded event  *)
(* loop, so a handler is a sequence of atomic steps (one per database      *)
(* statement or provider call) interleaved with the steps of the other     *)
(* requests in flight.                                                     *)
(***************************************************************************)
EXTENDS Integers, Sequences, FiniteSets, TLC

VARIABLES
    variant,            \* which server file is running
    users,              \* rows of table users
    usersSeq,           \* last value handed out by users_id_seq
    chats,              \* rows of table chats
    chatsSeq,           \* last value handed out by chats_id_seq
    messages,           \* rows of table messages
    messagesSeq,        \* last value handed out by messages_id_seq
    now,                \* database clock (CURRENT_TIMESTAMP), one tick per insert
    activeConnections,  \* src/server.js:65
    serverLoad,         \* src/server.js:66
    background,         \* requests to other routes in flight, counted only
    reqs,               \* the requests individually followed, one per slot
    issued,             \* number of followed requests that have arrived so far
    chatsFk,            \* the constraint chats.user_id REFERENCES users(id) exists
    deletedChats,       \* history: the chats removed by a successful DELETE, with who removed them
    hits,               \* store of the /api/ rate limiter: requests counted per key in this window
    processed,          \* history: the client's requests let through to a route in this window
    profileHits,        \* store of profileLimiter: profile requests counted per key in this window
    boots,              \* history: how many times the server has been started
    cache,              \* the three Maps of the cached server's cache object
    clock,              \* wall clock of the cache (new Date().getTime()), in ticks
    cacheOp,            \* history: the last call made to the cache
    cacheResult,        \* what that call returned or threw
    cacheModel,         \* history: per key, the value and expiry last passed to setWithExpiry
    client,             \* which of the browser clients the page runs
    input,              \* messageInput.value
    isLoading,          \* state.isLoading / isLoading (isTyping in the matrix client)
    chatsInFlight,      \* POST /api/chat requests sent and not yet answered
    sent,               \* history: chat requests sent since the page loaded
    shown,              \* messages added to the conversation
    token,              \* token client: whether a token is held
    isOnline,           \* public client: state.isOnline
    clickPending,       \* localStorage client: a quick prompt's click timer is set
    serverStatus,       \* matrix client: serverStatus
    serverWakeUpAttempts,   \* matrix client: serverWakeUpAttempts
    checksInFlight,     \* matrix client: health checks started and not ended
    timers,             \* matrix client: delays of the retry timers that are set
    failedSince,        \* history: failed health checks since the last successful one
    event               \* history: the client event handled last

vars == <<variant, users, usersSeq, chats, chatsSeq, messages, messagesSeq, now,
          activeConnections, serverLoad, background, reqs, issued, chatsFk,
          deletedChats, hits, processed, profileHits, boots,
          cache, clock, cacheOp, cacheResult, cacheModel,
          client, input, isLoading, chatsInFlight, sent, shown, token, isOnline,
          clickPending, serverStatus, serverWakeUpAttempts, checksInFlight, timers,
          failedSince, event>>

dbVars == <<users, usersSeq, chats, chatsSeq, messages, messagesSeq, now, deletedChats>>
userVars == <<users, usersSeq>>
chatVars == <<chats, chatsSeq, messages, messagesSeq, now, deletedChats>>
loadVars == <<activeConnections, serverLoad, background>>
limitVars == <<hits, processed, profileHits>>
cacheVars == <<cache, clock, cacheOp, cacheResult, cacheModel>>
sendVars == <<input, isLoading, chatsInFlight, sent, shown>>
pageVars == <<client, token, isOnline, clickPending>>
healthVars == <<serverStatus, serverWakeUpAttempts, checksInFlight, timers, failedSince>>
clientVars == <<sendVars, pageVars, healthVars, event>>
restVars == <<boots, cacheVars, clientVars>>
serverVars == <<variant, dbVars, chatsFk, loadVars, reqs, issued, limitVars, boots, cacheVars>>

-----------------------------------------------------------------------------
(* Bounds of the model                                                     *)

NSlots == 2            \* requests followed concurrently
MaxRequests == 2       \* followed requests per behaviour
MaxSends == 2           \* chat requests a page sends
MaxChecks == 2          \* health checks in flight or waiting on a retry timer
MaxFailed == 7          \* failed health checks in a row
MaxBoots == 2           \* process starts followed, the first included
NearLimit == 99         \* requests the limiter has counted for the client at the start of a limited run
MaxActive == 37        \* requests to other routes arrive while activeConnections is below
MinBackground == 34    \* requests to other routes end while more than these are in flight
BaseLoad == 35         \* requests to other routes in flight at the start of a loaded run

(* Program constants                                                       *)

MAX_CONNECTIONS == 50
HIGH_LOAD_THRESHOLD == 70
GUEST_ID == 1
GatedLimiterMax == 1000     \* max of the load-gated server's limiter
CachedLimiterMax == 100     \* max of the cached server's limiter
ReadmeLimit == 100          \* "100 requests per 15 minutes"
GatedProfileMax == 20       \* max of the load-gated server's profileLimiter
CachedProfileMax == 5       \* max of the cached server's profileLimiter

Slots == 1..NSlots

-----------------------------------------------------------------------------
(* Raw request values.  Header and path values reach the handlers as       *)
(* strings; they are sequences of one-character strings here so that       *)
(* parseInt and the database's integer input can be computed.              *)

NaN == -1              \* no raw value carries a sign, so -1 is never a parse result
Absent == << >>        \* header not sent (undefined) or empty: both falsy

DigitChars == {"0", "1", "2", "3"}

DigitVal(c) == CASE c = "0" -> 0 [] c = "1" -> 1 [] c = "2" -> 2 [] c = "3" -> 3

RECURSIVE DigitPrefixLen(_)
DigitPrefixLen(s) ==
    IF s = << >> \/ Head(s) \notin DigitChars THEN 0
    ELSE 1 + DigitPrefixLen(Tail(s))

RECURSIVE DigitsValue(_, _)
DigitsValue(s, acc) ==
    IF s = << >> THEN acc
    ELSE DigitsValue(Tail(s), 10 * acc + DigitVal(Head(s)))

(* parseInt(s, 10): the longest leading run of digits, NaN when there is none *)
ParseInt(s) ==
    LET n == DigitPrefixLen(s)
    IN  IF n = 0 THEN NaN ELSE DigitsValue(SubSeq(s, 1, n), 0)

(* A text parameter bound to an integer column: the whole text must be an   *)
(* integer literal, otherwise the statement fails (22P02).                  *)
PgInt(s) ==
    IF s # << >> /\ DigitPrefixLen(s) = Len(s) THEN DigitsValue(s, 0) ELSE NaN

UserHeaders == {Absent, <<"1">>, <<"2">>, <<"3">>, <<"2", "x">>}
ChatParams == {<<"1">>, <<"2">>}
Names == {"Guest", "A"}
Pins == {<<"1", "2", "3", "0">>, <<"1", "2">>}
Messages == {<< >>, <<"h", "i">>}

(* Who sends a request: the X-User-ID header and the Authorization header.  *)
(* The header clients send X-User-ID and no token; the token client sends  *)
(* "Bearer <token>" and no X-User-ID; an anonymous caller sends neither.    *)
Callers ==
    {[hdr |-> h, bearer |-> "none"] : h \in UserHeaders}
    \cup {[hdr |-> Absent, bearer |-> "valid"]}

-----------------------------------------------------------------------------
(* Load score                                                              *)

Min(a, b) == IF a < b THEN a ELSE b

(* Math.round of the quotient n/d for n >= 0, d > 0: halves round up *)
Round(n, d) == (2 * n + d) \div (2 * d)

(* Mutant of LoadScore: the ratio truncated before it is scaled *)
LoadScoreTruncated(conns) == Min(100, (conns \div MAX_CONNECTIONS) * 100)

LoadScore(conns) == Min(100, Round(conns * 100, MAX_CONNECTIONS))

-----------------------------------------------------------------------------
(* Requests                                                                *)

Variants == {"gated", "cached", "openai"}

(* A slot that follows no request *)
Idle ==
    [kind |-> "none", pc |-> "idle", hdr |-> Absent, name |-> "", pin |-> << >>,
     param |-> << >>, message |-> << >>,
     userIdNum |-> 0, currentChatId |-> 0,
     status |-> 0, error |-> "", details |-> "", fallback |-> "", field |-> "none",
     text |-> "", chatId |-> 0, rows |-> << >>, token |-> FALSE,
     xload |-> 0, owned |-> FALSE, bearer |-> "none",
     \* history of what the handler did, for the properties
     gateLoad |-> 0, chatsBefore |-> 0, latestBefore |-> 0, created |-> {},
     wrote |-> {}, providerCalls |-> 0, pok |-> FALSE, perr |-> "", ptype |-> "",
     pmsg |-> "", x |-> ""]

(* res.status(st).json({error: err, ..., fallbackResponse: fb}) *)
Reply(r, st, err, fb) ==
    [r EXCEPT !.pc = "responded", !.status = st, !.error = err, !.fallback = fb]

InFlight(s) == reqs[s].pc # "idle"

(* The routes each server file registers *)
Routes(v) ==
    CASE v = "gated"  -> {"create", "login", "chat", "chats", "messages", "delete"}
      [] v = "cached" -> {"create", "login", "chat", "chats", "messages", "delete"}
      [] v = "openai" -> {"chat"}

(* The request as it arrives: only the inputs its route reads are kept *)
NewRequest(kind, hdr, bearer, name, pin, param, message) ==
    [Idle EXCEPT
        !.kind = kind,
        !.pc = "route",
        !.bearer = IF kind = "chat" THEN bearer ELSE "none",
        !.hdr = IF kind \in {"create", "login"} THEN Absent ELSE hdr,
        !.name = IF kind \in {"create", "login"} THEN name ELSE "",
        !.pin = IF kind \in {"create", "login"} THEN pin ELSE << >>,
        !.param = IF kind \in {"messages", "delete"} THEN param ELSE << >>,
        !.message = IF kind = "chat" THEN message ELSE << >>]

-----------------------------------------------------------------------------
(* POST /api/profile/create                                                *)

(* pin.length !== 4 || !/^\d{4}$/.test(pin) *)
ValidPin(pin) == Len(pin) = 4 /\ \A i \in 1..Len(pin) : pin[i] \in DigitChars

(* users.name carries UNIQUE in the gated server's schema only *)
NameUnique == variant = "gated"

(* Validation, then the hash; the insert is the next step *)
CreateRoute(r) ==
    IF r.name = "" THEN Reply(r, 400, "Name and PIN are required", "")
    ELSE IF ~ValidPin(r.pin) THEN Reply(r, 400, "PIN must be exactly 4 digits", "")
    ELSE [r EXCEPT !.pc = "insert"]

(* INSERT INTO users (name, pin) VALUES ($1, $2) RETURNING id, name.       *)
(* The id default draws from the sequence before the constraints are       *)
(* checked, and a failed insert does not give the value back.              *)
InsertUserFails(id, name) ==
    \/ \E u \in users : u.id = id
    \/ NameUnique /\ \E u \in users : u.name = name

CreateInsert(s) ==
    LET r == reqs[s]
        id == usersSeq + 1
    IN
    /\ r.kind = "create" /\ r.pc = "insert"
    /\ usersSeq' = id
    /\ IF InsertUserFails(id, r.name)
       THEN /\ users' = users
            /\ reqs' = [reqs EXCEPT ![s] =
                  IF variant = "gated" THEN Reply(r, 409, "Name already exists", "")
                  ELSE Reply(r, 400, "Name already exists", "")]
       ELSE /\ users' = users \cup {[id |-> id, name |-> r.name, pin |-> r.pin]}
            /\ reqs' = [reqs EXCEPT ![s] =
                  [Reply(r, 200, "", "") EXCEPT !.token = TRUE, !.userIdNum = id]]
    /\ UNCHANGED <<variant, chatVars, chatsFk, loadVars, issued, limitVars, restVars>>

-----------------------------------------------------------------------------
(* POST /api/profile/login                                                 *)

LoginRoute(r) ==
    IF r.name = "" \/ r.pin = << >>
    THEN Reply(r, 400, IF variant = "gated" THEN "Name and PIN are required"
                       ELSE "Name and PIN required", "")
    ELSE [r EXCEPT !.pc = "query"]

(* The cached server stores the guest's PIN as the text '0000', which no    *)
(* PIN compares equal to; every other row holds a hash.                    *)
Hashed(user) == ~(variant = "cached" /\ user.id = GUEST_ID)

(* SELECT * FROM users WHERE name = $1, then the comparison of the PIN with *)
(* the stored hash of rows[0]; which row comes first when several carry the *)
(* name is up to the database.                                              *)
LoginQuery(s) ==
    LET r == reqs[s]
        found == {u \in users : u.name = r.name}
    IN
    /\ r.kind = "login" /\ r.pc = "query"
    /\ IF found = {}
       THEN reqs' = [reqs EXCEPT ![s] = Reply(r, 401, "Invalid name or PIN", "")]
       ELSE \E user \in found :
               reqs' = [reqs EXCEPT ![s] =
                  IF user.pin = r.pin /\ Hashed(user)
                  THEN [Reply(r, 200, "", "") EXCEPT !.token = TRUE, !.userIdNum = user.id]
                  ELSE Reply(r, 401, "Invalid name or PIN", "")]
    /\ UNCHANGED <<variant, dbVars, chatsFk, loadVars, issued, limitVars, restVars>>


-----------------------------------------------------------------------------
(* The provider                                                            *)

Contents == {"X", ""}

(* What the SDK call can end in: a completion, or a thrown error whose      *)
(* body carries a code, a type and a message.                               *)
ProviderErrors ==
    {[code |-> "insufficient_quota", type |-> "none", msg |-> "quota"],
     [code |-> "invalid_api_key", type |-> "none", msg |-> "key"],
     [code |-> "rate_limit_exceeded", type |-> "none", msg |-> "rate"],
     [code |-> "model_decommissioned", type |-> "none", msg |-> "model"],
     [code |-> "none", type |-> "invalid_request_error", msg |-> "bad request"],
     [code |-> "none", type |-> "none", msg |-> "boom"],
     [code |-> "none", type |-> "none", msg |-> "Groq overloaded"],
     [code |-> "none", type |-> "none", msg |-> ""]}

ProviderOutcomes ==
    {[ok |-> TRUE, content |-> c, err |-> [code |-> "none", type |-> "none", msg |-> ""]] :
        c \in Contents}
    \cup {[ok |-> FALSE, content |-> "", err |-> e] : e \in ProviderErrors}

(* Mutant of callGroqAPI: the insufficient_quota branch left out *)
callGroqAPINoQuota(e) ==
    IF e.code = "invalid_api_key" THEN "API_KEY_INVALID"
    ELSE IF e.code = "rate_limit_exceeded" THEN "API_RATE_LIMIT"
    ELSE IF e.code = "model_decommissioned" \/ e.type = "invalid_request_error"
         THEN "MODEL_ERROR"
    ELSE IF e.msg # "" THEN e.msg ELSE "Groq API error"

(* callGroqAPI's catch block: the message of the Error it throws *)
callGroqAPI(e) ==
    IF e.code = "insufficient_quota" THEN "API_QUOTA_EXCEEDED"
    ELSE IF e.code = "invalid_api_key" THEN "API_KEY_INVALID"
    ELSE IF e.code = "rate_limit_exceeded" THEN "API_RATE_LIMIT"
    ELSE IF e.code = "model_decommissioned" \/ e.type = "invalid_request_error"
         THEN "MODEL_ERROR"
    ELSE IF e.msg # "" THEN e.msg ELSE "Groq API error"

(* error.message.includes('Groq'), over the messages that can occur *)
IncludesGroq(m) == m \in {"Groq API error", "Groq overloaded"}

(* The canned fallback texts; only their being non-empty matters *)
Fallback == "I apologize, but I am currently unable to process your request."

(* Mutant of MapProviderError: the rate limit class answered like the key class *)
MapProviderErrorRate500(r, m) ==
    IF m = "API_QUOTA_EXCEEDED" THEN Reply(r, 429, m, Fallback)
    ELSE IF m = "API_KEY_INVALID" THEN Reply(r, 500, m, Fallback)
    ELSE IF m = "API_RATE_LIMIT" THEN Reply(r, 500, m, Fallback)
    ELSE IF m = "MODEL_ERROR" THEN Reply(r, 500, m, Fallback)
    ELSE r

(* The response to a provider error thrown with message m, or the request   *)
(* unchanged when the handler re-throws it.                                 *)
MapProviderError(r, m) ==
    IF m = "API_QUOTA_EXCEEDED" THEN Reply(r, 429, m, Fallback)
    ELSE IF m = "API_KEY_INVALID" THEN Reply(r, 500, m, Fallback)
    ELSE IF m = "API_RATE_LIMIT" THEN Reply(r, 429, m, Fallback)
    ELSE IF m = "MODEL_ERROR" THEN Reply(r, 500, m, Fallback)
    ELSE r

(* The outer catch of the chat handler *)
ChatCatch(r, m) ==
    IF variant = "cached" /\ IncludesGroq(m)
    THEN Reply(r, 500, "Groq API error", Fallback)
    ELSE Reply(r, 500, "Failed to process message", "")

-----------------------------------------------------------------------------
(* Database statements                                                     *)

UserIds == {u.id : u \in users}
ChatIds == {c.id : c \in chats}

(* Mutant of ChatsOf: the WHERE user_id = $1 clause left out *)
ChatsOfAnyone(uid) == chats

ChatsOf(uid) == {c \in chats : c.user_id = uid}

(* SELECT id FROM chats WHERE user_id = $1 ORDER BY created_at DESC LIMIT 1 *)
LatestChat(uid) ==
    (CHOOSE c \in ChatsOf(uid) : \A d \in ChatsOf(uid) : d.created_at <= c.created_at).id

(* INSERT INTO chats (user_id, ...): fails on a user_id that is no integer, *)
(* or that references no user while the foreign key is in place.            *)
InsertChatFails(uid) == uid = NaN \/ (chatsFk /\ uid \notin UserIds)

(* Mutant of InsertMessageFails: messages.chat_id without REFERENCES chats(id) *)
InsertMessageFailsNoFk(cid) == FALSE

(* INSERT INTO messages (chat_id, ...): chat_id REFERENCES chats(id) *)
InsertMessageFails(cid) == cid \notin ChatIds

NewMessage(cid, role, content) ==
    [id |-> messagesSeq + 1, chat_id |-> cid, role |-> role, content |-> content,
     created_at |-> now + 1]

-----------------------------------------------------------------------------
(* app.use('/api/', limiter): express-rate-limit counts the request under   *)
(* its key and answers 429 once the count of the window exceeds max.  One   *)
(* client is followed; the proxy registers no limiter.                      *)

HasLimiter == variant \in {"gated", "cached"}

(* keyGenerator: the load-gated server keys on the X-User-ID header when    *)
(* the request carries one and on the address otherwise; the cached server  *)
(* keeps the default, the address.  Absent stands for the address key.      *)
LimiterKey(hdr) == IF variant = "gated" THEN hdr ELSE Absent

LimiterMax == IF variant = "gated" THEN GatedLimiterMax ELSE CachedLimiterMax

(* skip: () => serverLoad > HIGH_LOAD_THRESHOLD, load-gated server only *)
LimiterSkips(load) == variant = "gated" /\ load > HIGH_LOAD_THRESHOLD

LimiterCounts(load) == HasLimiter /\ ~LimiterSkips(load)

HitsAfter(hdr, load) ==
    IF LimiterCounts(load) THEN [hits EXCEPT ![LimiterKey(hdr)] = @ + 1] ELSE hits

LimiterRejects(hdr, load) ==
    LimiterCounts(load) /\ HitsAfter(hdr, load)[LimiterKey(hdr)] > LimiterMax

TooMany(r) == Reply(r, 429, "Too many requests, please try again later", "")

(* profileLimiter, in front of the two profile routes; same key, same skip *)
ProfileLimited(r) == r.kind \in {"create", "login"}

ProfileMax == IF variant = "gated" THEN GatedProfileMax ELSE CachedProfileMax

ProfileHitsAfter(hdr, load) ==
    IF LimiterCounts(load) THEN [profileHits EXCEPT ![LimiterKey(hdr)] = @ + 1]
    ELSE profileHits

ProfileRejects(hdr, load) ==
    LimiterCounts(load) /\ ProfileHitsAfter(hdr, load)[LimiterKey(hdr)] > ProfileMax

TooManyProfile(r) ==
    Reply(r, 429, "Too many profile attempts, please try again later", "")

(* The limiters a request passes on its way to its route, under the load    *)
(* score in force: the new stores, whether the request is let through, and  *)
(* the request as a limiter answered it when it is not.                     *)
Limiters(r, load) ==
    IF LimiterRejects(r.hdr, load)
    THEN [hits |-> HitsAfter(r.hdr, load), profileHits |-> profileHits,
          processed |-> processed, passed |-> FALSE, req |-> TooMany(r)]
    ELSE IF ProfileLimited(r)
    THEN [hits |-> HitsAfter(r.hdr, load),
          profileHits |-> ProfileHitsAfter(r.hdr, load),
          processed |-> processed + 1,
          passed |-> ~ProfileRejects(r.hdr, load), req |-> TooManyProfile(r)]
    ELSE [hits |-> HitsAfter(r.hdr, load), profileHits |-> profileHits,
          processed |-> processed + 1, passed |-> TRUE, req |-> r]

(* The window of the limiter ends: its store starts again from nothing *)
WindowReset ==
    /\ HasLimiter
    /\ processed > 0
    /\ hits' = [k \in UserHeaders |-> 0]
    /\ profileHits' = [k \in UserHeaders |-> 0]
    /\ processed' = 0
    /\ UNCHANGED <<variant, dbVars, chatsFk, loadVars, reqs, issued, restVars>>

-----------------------------------------------------------------------------
(* POST /api/chat                                                          *)

(* Mutant of GatedChatRoute: the gate compares with >= instead of > *)
GatedChatRouteAtThreshold(s) ==
    LET r == [reqs[s] EXCEPT !.gateLoad = serverLoad] IN
    /\ variant = "gated"
    /\ r.kind = "chat" /\ r.pc = "route"
    /\ hits' = HitsAfter(r.hdr, serverLoad)
    /\ processed' = IF LimiterRejects(r.hdr, serverLoad) THEN processed ELSE processed + 1
    /\ reqs' = [reqs EXCEPT ![s] =
          IF LimiterRejects(r.hdr, serverLoad) THEN TooMany(r)
          ELSE IF serverLoad >= HIGH_LOAD_THRESHOLD
               THEN Reply(r, 503, "SERVER_BUSY", Fallback)
          ELSE IF r.message = << >> THEN Reply(r, 400, "Message is required", "")
          ELSE [r EXCEPT !.pc = "resolve", !.userIdNum = ParseInt(r.hdr)]]
    /\ UNCHANGED <<variant, dbVars, chatsFk, loadVars, issued, profileHits, restVars>>

(* The body has been read: the limiter, checkServerLoad, then the start of  *)
(* the gated handler up to its first await.                                 *)
GatedChatRoute(s) ==
    LET r == [reqs[s] EXCEPT !.gateLoad = serverLoad] IN
    /\ variant = "gated"
    /\ r.kind = "chat" /\ r.pc = "route"
    /\ hits' = HitsAfter(r.hdr, serverLoad)
    /\ processed' = IF LimiterRejects(r.hdr, serverLoad) THEN processed ELSE processed + 1
    /\ reqs' = [reqs EXCEPT ![s] =
          IF LimiterRejects(r.hdr, serverLoad) THEN TooMany(r)
          ELSE IF serverLoad > HIGH_LOAD_THRESHOLD
               THEN Reply(r, 503, "SERVER_BUSY", Fallback)
          ELSE IF r.message = << >> THEN Reply(r, 400, "Message is required", "")
          ELSE [r EXCEPT !.pc = "resolve", !.userIdNum = ParseInt(r.hdr)]]
    /\ UNCHANGED <<variant, dbVars, chatsFk, loadVars, issued, profileHits, restVars>>

(* Gated server: a fresh chat for the guest, the latest chat of anyone else *)
GatedChatResolve(s) ==
    LET r == reqs[s]
        uid == r.userIdNum
        h == [r EXCEPT !.chatsBefore = Cardinality(ChatsOf(uid)),
                       !.latestBefore = IF ChatsOf(uid) = {} THEN 0 ELSE LatestChat(uid)]
    IN
    /\ variant = "gated"
    /\ r.kind = "chat" /\ r.pc = "resolve"
    /\ IF uid = GUEST_ID
       THEN /\ chatsSeq' = chatsSeq + 1
            /\ now' = now + 1
            /\ chats' = chats \cup
                  {[id |-> chatsSeq + 1, user_id |-> GUEST_ID, created_at |-> now + 1]}
            /\ reqs' = [reqs EXCEPT ![s] =
                  [h EXCEPT !.pc = "saveUser", !.currentChatId = chatsSeq + 1,
                            !.created = {chatsSeq + 1}]]
       ELSE /\ UNCHANGED <<chats, chatsSeq, now>>
            /\ reqs' = [reqs EXCEPT ![s] =
                  IF uid = NaN THEN ChatCatch(h, "invalid input syntax for type integer")
                  ELSE IF ChatsOf(uid) # {}
                       THEN [h EXCEPT !.pc = "saveUser", !.currentChatId = LatestChat(uid)]
                       ELSE [h EXCEPT !.pc = "create"]]
    /\ UNCHANGED <<variant, userVars, messages, messagesSeq, deletedChats, chatsFk,
                   loadVars, issued, limitVars, restVars>>

(* message.trim(): the text without its leading and trailing blanks *)
RECURSIVE TrimStart(_)
TrimStart(m) == IF m # << >> /\ Head(m) = " " THEN TrimStart(Tail(m)) ELSE m

RECURSIVE TrimEnd(_)
TrimEnd(m) ==
    IF m # << >> /\ m[Len(m)] = " " THEN TrimEnd(SubSeq(m, 1, Len(m) - 1)) ELSE m

Trim(m) == TrimEnd(TrimStart(m))

(* Mutant of CachedChatRoute: the check of the message left out *)
CachedChatRouteNoValidation(r) ==
    LET userId == IF r.hdr # Absent THEN ParseInt(r.hdr) ELSE GUEST_ID IN
    [r EXCEPT !.userIdNum = userId,
              !.pc = IF userId # GUEST_ID THEN "create" ELSE "provider"]

(* Cached server: no gate; guests skip the database altogether *)
CachedChatRoute(r) ==
    LET userId == IF r.hdr # Absent THEN ParseInt(r.hdr) ELSE GUEST_ID IN
    IF r.message = << >> \/ Len(Trim(r.message)) = 0
    THEN Reply(r, 400, "Message required", "")
    ELSE [r EXCEPT !.userIdNum = userId,
                   !.pc = IF userId # GUEST_ID THEN "create" ELSE "provider"]

(* INSERT INTO chats (user_id, title) VALUES ($1, $2) RETURNING id *)
ChatCreate(s) ==
    LET r == reqs[s]
        uid == r.userIdNum
        h == IF variant = "cached"
             THEN [r EXCEPT !.chatsBefore = Cardinality(ChatsOf(uid)),
                            !.latestBefore = IF ChatsOf(uid) = {} THEN 0
                                             ELSE LatestChat(uid)]
             ELSE r
    IN
    /\ r.kind = "chat" /\ r.pc = "create"
    /\ IF InsertChatFails(uid)
       THEN /\ chatsSeq' = IF uid = NaN THEN chatsSeq ELSE chatsSeq + 1
            /\ UNCHANGED <<chats, now>>
            /\ reqs' = [reqs EXCEPT ![s] = ChatCatch(h, "insert or update on table chats")]
       ELSE /\ chatsSeq' = chatsSeq + 1
            /\ now' = now + 1
            /\ chats' = chats \cup
                  {[id |-> chatsSeq + 1, user_id |-> uid, created_at |-> now + 1]}
            /\ reqs' = [reqs EXCEPT ![s] =
                  [h EXCEPT !.pc = "saveUser", !.currentChatId = chatsSeq + 1,
                            !.created = {chatsSeq + 1}]]
    /\ UNCHANGED <<variant, userVars, messages, messagesSeq, deletedChats, chatsFk,
                   loadVars, issued, limitVars, restVars>>

(* Mutant of ChatSaveUser: the provider is called without the user message *)
(* having been stored.                                                     *)
ChatSaveUserSkipped(s) ==
    LET r == reqs[s] IN
    /\ r.kind = "chat" /\ r.pc = "saveUser"
    /\ reqs' = [reqs EXCEPT ![s] = [r EXCEPT !.pc = "provider"]]
    /\ UNCHANGED <<variant, dbVars, chatsFk, loadVars, issued, limitVars, restVars>>

(* INSERT INTO messages (chat_id, role, content) VALUES ($1, 'user', $3) *)
ChatSaveUser(s) ==
    LET r == reqs[s] IN
    /\ r.kind = "chat" /\ r.pc = "saveUser"
    /\ messagesSeq' = messagesSeq + 1
    /\ IF InsertMessageFails(r.currentChatId)
       THEN /\ UNCHANGED <<messages, now>>
            /\ reqs' = [reqs EXCEPT ![s] = ChatCatch(r, "insert or update on table messages")]
       ELSE /\ now' = now + 1
            /\ messages' = messages \cup {NewMessage(r.currentChatId, "user", r.message)}
            /\ reqs' = [reqs EXCEPT ![s] =
                  [r EXCEPT !.pc = "provider",
                            !.wrote = @ \cup {[id |-> messagesSeq + 1, role |-> "user",
                                               chat_id |-> r.currentChatId]}]]
    /\ UNCHANGED <<variant, userVars, chats, chatsSeq, deletedChats, chatsFk,
                   loadVars, issued, limitVars, restVars>>

(* Mutant of ChatSuccess: the body echoes the chat id but not the reply *)
ChatSuccessNoText(r, aiMessage) ==
    [Reply(r, 200, "", "") EXCEPT
        !.field = "response", !.text = "",
        !.chatId = IF variant = "cached" /\ r.userIdNum = GUEST_ID THEN 0
                   ELSE r.currentChatId]

(* The success response of the gated and cached servers *)
ChatSuccess(r, aiMessage) ==
    [Reply(r, 200, "", "") EXCEPT
        !.field = "response", !.text = aiMessage,
        !.chatId = IF variant = "cached" /\ r.userIdNum = GUEST_ID THEN 0
                   ELSE r.currentChatId]

(* Mutant of ChatProvider: a failed call is attempted once more, as the    *)
(* retries parameter suggests.                                             *)
ChatProviderRetry(s) ==
    /\ variant \in {"gated", "cached"}
    /\ reqs[s].kind = "chat" /\ reqs[s].pc = "provider"
    /\ \E o \in ProviderOutcomes :
          LET r == [reqs[s] EXCEPT !.providerCalls = @ + 1, !.pok = o.ok,
                                   !.perr = o.err.code, !.ptype = o.err.type,
                                   !.pmsg = o.err.msg]
          IN
          reqs' = [reqs EXCEPT ![s] =
            IF o.ok
            THEN IF variant = "cached" /\ r.userIdNum = GUEST_ID
                 THEN ChatSuccess([r EXCEPT !.x = o.content], o.content)
                 ELSE [r EXCEPT !.pc = "saveAI", !.x = o.content]
            ELSE IF r.providerCalls < 2 THEN r
            ELSE LET m == callGroqAPI(o.err)
                     mapped == MapProviderError(r, m)
                 IN  IF mapped # r THEN mapped ELSE ChatCatch(r, m)]
    /\ UNCHANGED <<variant, dbVars, chatsFk, loadVars, issued, limitVars, restVars>>

(* data = await callGroqAPI(message), and what follows without a further await *)
ChatProvider(s) ==
    /\ variant \in {"gated", "cached"}
    /\ reqs[s].kind = "chat" /\ reqs[s].pc = "provider"
    /\ \E o \in ProviderOutcomes :
          LET r == [reqs[s] EXCEPT !.providerCalls = @ + 1, !.pok = o.ok,
                                   !.perr = o.err.code, !.ptype = o.err.type,
                                   !.pmsg = o.err.msg]
          IN
          reqs' = [reqs EXCEPT ![s] =
            IF o.ok
            THEN IF variant = "cached" /\ r.userIdNum = GUEST_ID
                 THEN ChatSuccess([r EXCEPT !.x = o.content], o.content)
                 ELSE [r EXCEPT !.pc = "saveAI", !.x = o.content]
            ELSE LET m == callGroqAPI(o.err)
                     mapped == MapProviderError(r, m)
                 IN  IF mapped # r THEN mapped ELSE ChatCatch(r, m)]
    /\ UNCHANGED <<variant, dbVars, chatsFk, loadVars, issued, limitVars, restVars>>

(* INSERT INTO messages (chat_id, role, content) VALUES ($1, 'assistant', $3); *)
(* the completion's text is stored whole, as a content of one piece.         *)
ChatSaveAI(s) ==
    LET r == reqs[s] IN
    /\ r.kind = "chat" /\ r.pc = "saveAI"
    /\ messagesSeq' = messagesSeq + 1
    /\ IF InsertMessageFails(r.currentChatId)
       THEN /\ UNCHANGED <<messages, now>>
            /\ reqs' = [reqs EXCEPT ![s] = ChatCatch(r, "insert or update on table messages")]
       ELSE /\ now' = now + 1
            /\ messages' = messages \cup {NewMessage(r.currentChatId, "assistant", <<r.x>>)}
            /\ reqs' = [reqs EXCEPT ![s] =
                  ChatSuccess([r EXCEPT !.wrote = @ \cup
                                  {[id |-> messagesSeq + 1, role |-> "assistant",
                                    chat_id |-> r.currentChatId]}], r.x)]
    /\ UNCHANGED <<variant, userVars, chats, chatsSeq, deletedChats, chatsFk,
                   loadVars, issued, limitVars, restVars>>

(* The stateless proxy: validate, call the provider, answer with `reply` *)
OpenAIChatRoute(r) ==
    IF r.message = << >> THEN Reply(r, 400, "Message is required", "")
    ELSE [r EXCEPT !.pc = "provider"]

OpenAIChatProvider(s) ==
    /\ variant = "openai"
    /\ reqs[s].kind = "chat" /\ reqs[s].pc = "provider"
    /\ \E o \in ProviderOutcomes :
          LET r == [reqs[s] EXCEPT !.providerCalls = @ + 1, !.pok = o.ok,
                                   !.perr = o.err.code, !.ptype = o.err.type,
                                   !.pmsg = o.err.msg]
          IN
          reqs' = [reqs EXCEPT ![s] =
            IF o.ok
            THEN [Reply(r, 200, "", "") EXCEPT
                    !.x = o.content, !.field = "reply",
                    !.text = IF o.content # "" THEN o.content ELSE "No response generated"]
            ELSE [Reply(r, 500, "Failed to process chat", "") EXCEPT !.details = o.err.msg]]
    /\ UNCHANGED <<variant, dbVars, chatsFk, loadVars, issued, limitVars, restVars>>

-----------------------------------------------------------------------------
(* The TTL cache of the cached server                                      *)

CacheContainers == {<<"u", "s", "e", "r", "s">>, <<"c", "h", "a", "t", "s">>,
                    <<"m", "e", "s", "s", "a", "g", "e", "s">>}

(* `chats_${userId}` *)
ChatsCacheKey(userId) == <<"c", "h", "a", "t", "s", "_">> \o userId

(* The keys the handlers pass to the cache: `chats_${userId}` in            *)
(* GET /api/chats and the chat id in GET /api/chats/:chatId.                *)
HandlerKeys == {ChatsCacheKey(<<"2">>), <<"1">>}

(* Keys the cache is exercised with: the handlers' and the name of a Map *)
CacheKeys == HandlerKeys \cup {<<"c", "h", "a", "t", "s">>}

CacheValues == {"rowsA", "rowsB"}

MaxTtl == 2
MaxClock == 3

(* this[key]: one of the three Maps when the key is a Map's name, and       *)
(* undefined (or one of the two functions) otherwise, on which .get and     *)
(* .set throw a TypeError.                                                  *)
IsMap(key) == key \in CacheContainers

Entry(key) == CHOOSE e \in cache[key] : e.key = key

(* cache.getWithExpiry(key): what the call returns or throws *)
getWithExpiry(key) ==
    IF ~IsMap(key) THEN "TypeError"
    ELSE IF ~\E e \in cache[key] : e.key = key THEN "null"
    ELSE IF clock > Entry(key).expiry THEN "null"
    ELSE Entry(key).value

(* cache.getWithExpiry(key) as a call: an expired entry is deleted *)
CacheGet ==
    \E key \in CacheKeys :
        /\ cacheOp' = [op |-> "get", key |-> key, at |-> clock]
        /\ cacheResult' = getWithExpiry(key)
        /\ cache' = IF IsMap(key) /\ \E e \in cache[key] : e.key = key /\ clock > e.expiry
                    THEN [cache EXCEPT ![key] = {e \in @ : e.key # key}]
                    ELSE cache
        /\ UNCHANGED <<variant, dbVars, chatsFk, loadVars, reqs, issued, limitVars,
                       boots, clock, cacheModel, clientVars>>

(* cache.setWithExpiry(key, value, ttl) *)
CacheSet ==
    \E key \in CacheKeys, value \in CacheValues, ttl \in 1..MaxTtl :
        /\ cacheOp' = [op |-> "set", key |-> key, at |-> clock]
        /\ cacheModel' = [cacheModel EXCEPT ![key] =
                             [set |-> TRUE, value |-> value, expiry |-> clock + ttl]]
        /\ IF IsMap(key)
           THEN /\ cache' = [cache EXCEPT ![key] =
                               {e \in @ : e.key # key}
                               \cup {[key |-> key, value |-> value, expiry |-> clock + ttl]}]
                /\ cacheResult' = "undefined"
           ELSE /\ cache' = cache
                /\ cacheResult' = "TypeError"
        /\ UNCHANGED <<variant, dbVars, chatsFk, loadVars, reqs, issued, limitVars,
                       boots, clock, clientVars>>

(* Time passes: new Date().getTime() grows *)
CacheTick ==
    /\ clock < MaxClock
    /\ clock' = clock + 1
    /\ UNCHANGED <<variant, dbVars, chatsFk, loadVars, reqs, issued, limitVars,
                   boots, cache, cacheOp, cacheResult, cacheModel, clientVars>>

(* function validateUserId(userId) *)
validateUserId(userId) == ~(userId = Absent \/ userId = <<"1">>)

(* The gated server's check: !userId || parseInt(userId, 10) === 1 *)
GatedAuthenticated(userId) == ~(userId = Absent \/ ParseInt(userId) = GUEST_ID)

Authenticated(userId) ==
    IF variant = "gated" THEN GatedAuthenticated(userId) ELSE validateUserId(userId)

(* How a handler hands a header or path value to the database: the gated   *)
(* server parses it first, the cached server binds the text.               *)
DbInt(raw) == IF variant = "gated" THEN ParseInt(raw) ELSE PgInt(raw)

(* Rows in ascending created_at order *)
RECURSIVE Ascending(_)
Ascending(S) ==
    IF S = {} THEN << >>
    ELSE LET m == CHOOSE x \in S : \A y \in S : x.created_at <= y.created_at
         IN  <<m>> \o Ascending(S \ {m})

RECURSIVE Descending(_)
Descending(S) ==
    IF S = {} THEN << >>
    ELSE LET m == CHOOSE x \in S : \A y \in S : x.created_at >= y.created_at
         IN  <<m>> \o Descending(S \ {m})

-----------------------------------------------------------------------------
(* GET /api/chats                                                          *)

ChatsRoute(r) ==
    IF ~Authenticated(r.hdr) THEN Reply(r, 401, "Authentication required", "")
    ELSE IF variant = "cached" /\ getWithExpiry(ChatsCacheKey(r.hdr)) = "TypeError"
         THEN Reply(r, 500, "Database error", "")
    ELSE [r EXCEPT !.pc = "query", !.userIdNum = DbInt(r.hdr)]

(* SELECT * FROM chats WHERE user_id = $1 ORDER BY created_at DESC *)
ChatsQuery(s) ==
    LET r == reqs[s] IN
    /\ r.kind = "chats" /\ r.pc = "query"
    /\ reqs' = [reqs EXCEPT ![s] =
          IF r.userIdNum = NaN THEN Reply(r, 500, "Database error", "")
          ELSE [Reply(r, 200, "", "") EXCEPT !.rows = Descending(ChatsOf(r.userIdNum))]]
    /\ UNCHANGED <<variant, dbVars, chatsFk, loadVars, issued, limitVars, restVars>>

-----------------------------------------------------------------------------
(* GET /api/chats/:chatId and DELETE /api/chats/:chatId                    *)

ChatRoute(r) ==
    IF ~Authenticated(r.hdr) THEN Reply(r, 401, "Authentication required", "")
    ELSE [r EXCEPT !.pc = "check", !.userIdNum = DbInt(r.hdr),
                   !.currentChatId = DbInt(r.param)]

(* Mutant of OwnsChat: the AND user_id = $2 clause left out *)
OwnsChatAnyUser(cid, uid) == \E c \in chats : c.id = cid

(* SELECT * FROM chats WHERE id = $1 AND user_id = $2 *)
OwnsChat(cid, uid) == \E c \in chats : c.id = cid /\ c.user_id = uid

(* The ownership check; in the cached server's GET the cache lookup follows *)
(* it without an await.                                                     *)
ChatCheck(s) ==
    LET r == reqs[s]
        fail == IF r.kind = "messages" THEN "Database error" ELSE "Failed to delete chat"
    IN
    /\ r.kind \in {"messages", "delete"} /\ r.pc = "check"
    /\ reqs' = [reqs EXCEPT ![s] =
          IF r.userIdNum = NaN \/ r.currentChatId = NaN THEN Reply(r, 500, fail, "")
          ELSE IF ~OwnsChat(r.currentChatId, r.userIdNum)
               THEN Reply(r, 403, "Access denied", "")
          ELSE IF variant = "cached" /\ r.kind = "messages"
                  /\ getWithExpiry(r.param) = "TypeError"
               THEN [Reply(r, 500, fail, "") EXCEPT !.owned = TRUE]
          ELSE [r EXCEPT !.owned = TRUE,
                         !.pc = IF r.kind = "messages" THEN "query" ELSE "delete"]]
    /\ UNCHANGED <<variant, dbVars, chatsFk, loadVars, issued, limitVars, restVars>>

(* SELECT * FROM messages WHERE chat_id = $1 ORDER BY created_at ASC *)
MessagesOf(cid) == {m \in messages : m.chat_id = cid}

MessagesQuery(s) ==
    LET r == reqs[s] IN
    /\ r.kind = "messages" /\ r.pc = "query"
    /\ reqs' = [reqs EXCEPT ![s] =
          [Reply(r, 200, "", "") EXCEPT !.rows = Ascending(MessagesOf(r.currentChatId))]]
    /\ UNCHANGED <<variant, dbVars, chatsFk, loadVars, issued, limitVars, restVars>>

(* Mutant of ChatDelete: the messages table without ON DELETE CASCADE, the  *)
(* rows of the chat stay behind.                                            *)
ChatDeleteNoCascade(s) ==
    LET r == reqs[s] IN
    /\ r.kind = "delete" /\ r.pc = "delete"
    /\ chats' = {c \in chats : c.id # r.currentChatId}
    /\ deletedChats' = deletedChats \cup
          {[id |-> r.currentChatId, user_id |-> r.userIdNum]}
    /\ reqs' = [reqs EXCEPT ![s] = Reply(r, 200, "", "")]
    /\ UNCHANGED <<variant, userVars, chatsSeq, messages, messagesSeq, now, chatsFk,
                   loadVars, issued, limitVars, restVars>>

(* DELETE FROM chats WHERE id = $1; messages go with it (ON DELETE CASCADE) *)
ChatDelete(s) ==
    LET r == reqs[s] IN
    /\ r.kind = "delete" /\ r.pc = "delete"
    /\ chats' = {c \in chats : c.id # r.currentChatId}
    /\ messages' = {m \in messages : m.chat_id # r.currentChatId}
    /\ deletedChats' = deletedChats \cup
          {[id |-> r.currentChatId, user_id |-> r.userIdNum]}
    /\ reqs' = [reqs EXCEPT ![s] = Reply(r, 200, "", "")]
    /\ UNCHANGED <<variant, userVars, chatsSeq, messagesSeq, now, chatsFk, loadVars, issued, limitVars, restVars>>

-----------------------------------------------------------------------------
(* Requests to other routes (GET /api/health and the like): they pass the  *)
(* connection tracking middleware like any request; only their number is   *)
(* followed.                                                               *)

BackgroundArrive ==
    /\ variant = "gated"
    /\ activeConnections < MaxActive
    /\ background' = background + 1
    /\ activeConnections' = activeConnections + 1
    /\ serverLoad' = LoadScore(activeConnections')
    /\ UNCHANGED <<variant, dbVars, chatsFk, reqs, issued, limitVars, restVars>>

BackgroundFinish ==
    /\ variant = "gated"
    /\ background > MinBackground
    /\ background' = background - 1
    /\ activeConnections' = activeConnections - 1
    /\ UNCHANGED <<variant, dbVars, chatsFk, serverLoad, reqs, issued, limitVars, restVars>>

BackgroundDrop ==
    /\ variant = "gated"
    /\ background > MinBackground
    /\ background' = background - 1
    /\ UNCHANGED <<variant, dbVars, chatsFk, activeConnections, serverLoad, reqs, issued, limitVars, restVars>>

-----------------------------------------------------------------------------
(* Arrival and completion of the followed requests                         *)

(* The synchronous start of a handler: everything up to its first await.    *)
(* The gated chat route is the exception: the JSON body parser in front of  *)
(* it reads the body asynchronously, so checkServerLoad runs in a later     *)
(* step than the connection tracking middleware (GatedChatRoute).           *)
Route(r) ==
    CASE r.kind = "create" -> CreateRoute(r)
      [] r.kind = "login" -> LoginRoute(r)
      [] r.kind = "chats" -> ChatsRoute(r)
      [] r.kind \in {"messages", "delete"} -> ChatRoute(r)
      [] r.kind = "chat" /\ variant = "cached" -> CachedChatRoute(r)
      [] r.kind = "chat" /\ variant = "openai" -> OpenAIChatRoute(r)
      [] OTHER -> r

(* Load-gated server, a profile request whose body has been read: the       *)
(* limiter, profileLimiter, then the start of the handler.                  *)
GatedProfileRoute(s) ==
    LET r == reqs[s]
        lim == Limiters(r, serverLoad)
    IN
    /\ variant = "gated"
    /\ ProfileLimited(r) /\ r.pc = "route"
    /\ hits' = lim.hits
    /\ profileHits' = lim.profileHits
    /\ processed' = lim.processed
    /\ reqs' = [reqs EXCEPT ![s] = IF lim.passed THEN Route(r) ELSE lim.req]
    /\ UNCHANGED <<variant, dbVars, chatsFk, loadVars, issued, restVars>>

(* A request arrives.  In the gated server the connection tracking         *)
(* middleware runs first: it counts the request, recomputes the load and   *)
(* stamps the X-Server-Load header.                                        *)
ArriveOf(s, kinds) ==
    /\ ~InFlight(s)
    /\ \A t \in Slots : t < s => InFlight(t)    \* slots are taken lowest first
    /\ issued < MaxRequests
    /\ \E kind \in kinds, caller \in Callers,
          name \in Names \cup {""}, pin \in Pins, param \in ChatParams,
          message \in Messages :
          LET r == NewRequest(kind, caller.hdr, caller.bearer, name, pin, param, message)
              \* in the load-gated server the limiters of a request with a body
              \* run once the body is read
              later == variant = "gated" /\ kind \in {"chat", "create", "login"}
              q == [r EXCEPT !.xload = IF variant = "gated" THEN serverLoad' ELSE 0]
              lim == IF HasLimiter /\ ~later THEN Limiters(q, serverLoad')
                     ELSE [hits |-> hits, profileHits |-> profileHits,
                           processed |-> processed, passed |-> TRUE, req |-> q]
          IN  /\ IF variant = "gated"
                 THEN /\ activeConnections' = activeConnections + 1
                      /\ serverLoad' = LoadScore(activeConnections')
                 ELSE UNCHANGED <<activeConnections, serverLoad>>
              /\ hits' = lim.hits
              /\ profileHits' = lim.profileHits
              /\ processed' = lim.processed
              /\ reqs' = [reqs EXCEPT ![s] =
                    IF ~lim.passed THEN lim.req
                    ELSE IF later THEN q ELSE Route(q)]
    /\ issued' = issued + 1
    /\ UNCHANGED <<variant, dbVars, chatsFk, background, restVars>>

Arrive(s) == ArriveOf(s, Routes(variant))

(* The arrival of a chat request *)
ChatArrive(s) == ArriveOf(s, {"chat"})

(* The arrival of a request to one of the two routes followed in a limited run *)
LimitedArrive(s) == ArriveOf(s, {"chat", "chats"})

(* res.on('finish'): the response has been handed to the network *)
Finish(s) ==
    /\ reqs[s].pc = "responded"
    /\ IF variant = "gated"
       THEN activeConnections' = activeConnections - 1
       ELSE UNCHANGED activeConnections
    /\ reqs' = [reqs EXCEPT ![s] = Idle]
    /\ UNCHANGED <<variant, dbVars, chatsFk, serverLoad, background, issued, limitVars, restVars>>

(* The client goes away before the response is finished: the response      *)
(* emits 'close' but never 'finish', and nothing listens for 'close'.      *)
(* (A client that goes away earlier changes nothing before this point:     *)
(* the handler runs to its end regardless.)                                *)
Drop(s) ==
    /\ reqs[s].pc = "responded"
    /\ reqs' = [reqs EXCEPT ![s] = Idle]
    /\ UNCHANGED <<variant, dbVars, chatsFk, loadVars, issued, limitVars, restVars>>

-----------------------------------------------------------------------------
(* The browser clients.  One page runs one of them:                        *)
(*   "header" : src/app.js 1-873, sends X-User-ID                          *)
(*   "token"  : src/app.js 874-1121, sends Authorization: Bearer           *)
(*   "local"  : src/app.js 1122-1335, keeps its history in localStorage    *)
(*   "public" : src/public/app.js                                          *)
(*   "matrix" : src/unnamed/part_000, with the server status check         *)
(* A handler runs to its first await without interruption; the response of *)
(* a fetch is handled in a later step.                                     *)

ClientKinds == {"header", "token", "local", "public", "matrix"}

MAX_WAKE_UP_ATTEMPTS == 5

Prompt == <<"h", "i">>

(* What the input field can hold: nothing, blanks, a text *)
Inputs == {<< >>, <<" ">>, Prompt}

(* The page as it is once loaded *)
InitPage(k) ==
    /\ client = k
    /\ input = << >>
    /\ isLoading = FALSE
    /\ chatsInFlight = 0 /\ sent = 0 /\ shown = 0
    /\ token = FALSE
    /\ isOnline = TRUE
    /\ clickPending = FALSE
    /\ serverStatus = "connected"
    /\ serverWakeUpAttempts = 0
    /\ checksInFlight = 0
    /\ timers = << >>
    /\ failedSince = 0
    /\ event = "load"

(* The user edits the input field *)
Type ==
    /\ \E text \in Inputs : input' = text
    /\ event' = "type"
    /\ UNCHANGED <<serverVars, isLoading, chatsInFlight, sent, shown, pageVars, healthVars>>

(* Mutant of Returns: the test of the flag left out *)
ReturnsIgnoringFlag(message) ==
    CASE client = "token"  -> message = << >> \/ ~token
      [] client = "public" -> message = << >> \/ ~isOnline
      [] client = "matrix" -> message = << >> \/ serverStatus = "error"
      [] OTHER             -> message = << >>

(* The early returns of sendMessage, ahead of anything it changes *)
Returns(message) ==
    CASE client = "token"  -> message = << >> \/ isLoading \/ ~token
      [] client = "public" -> message = << >> \/ isLoading \/ ~isOnline
      [] client = "matrix" -> message = << >> \/ isLoading \/ serverStatus = "error"
      [] OTHER             -> message = << >> \/ isLoading

(* sendMessage() up to its await fetch('/api/chat'), with the input field  *)
(* holding text: the flag is set, the user's message is added, the field is *)
(* cleared and the request is sent.                                        *)
SendOf(ev, text) ==
    LET message == Trim(text) IN
    /\ event' = ev
    /\ IF Returns(message)
       THEN /\ input' = text
            /\ UNCHANGED <<isLoading, chatsInFlight, sent, shown>>
       ELSE /\ sent < MaxSends
            /\ input' = << >>
            /\ isLoading' = TRUE
            /\ chatsInFlight' = chatsInFlight + 1
            /\ sent' = sent + 1
            /\ shown' = shown + 1
    /\ UNCHANGED <<serverVars, pageVars, healthVars>>

(* A click on the send button or Enter in the input field *)
sendMessage == SendOf("send", input)

(* Token client, quickPrompt(prompt): fills the field and sends *)
quickPrompt ==
    /\ client = "token"
    /\ IF ~token
       THEN /\ event' = "quick"
            /\ UNCHANGED <<serverVars, sendVars, pageVars, healthVars>>
       ELSE SendOf("quick", Prompt)

(* localStorage client, quickPrompt(text): fills the field and sets a timer *)
(* that clicks the send button.                                            *)
QuickPromptTimer ==
    /\ client = "local"
    /\ input' = Prompt
    /\ clickPending' = TRUE
    /\ event' = "prompt"
    /\ UNCHANGED <<serverVars, isLoading, chatsInFlight, sent, shown,
                   client, token, isOnline, healthVars>>

(* The timer fires: sendBtn.click(), which a disabled button ignores *)
QuickPromptClick ==
    /\ client = "local"
    /\ clickPending
    /\ clickPending' = FALSE
    /\ IF isLoading
       THEN /\ event' = "click"
            /\ UNCHANGED sendVars
       ELSE LET message == Trim(input) IN
            /\ event' = "send"
            /\ IF Returns(message)
               THEN UNCHANGED sendVars
               ELSE /\ sent < MaxSends
                    /\ input' = << >>
                    /\ isLoading' = TRUE
                    /\ chatsInFlight' = chatsInFlight + 1
                    /\ sent' = sent + 1
                    /\ shown' = shown + 1
    /\ UNCHANGED <<serverVars, client, token, isOnline, healthVars>>

(* How a chat request ends: a reply, an error body with a fallback text,   *)
(* the load gate's 503, another error body, or no response at all.         *)
ChatOutcomes == {"reply", "fallback", "busy", "error", "network"}

(* The messages the rest of sendMessage adds to the conversation *)
Added(o) ==
    CASE client \in {"header", "public"} -> IF o \in {"reply", "fallback"} THEN 1 ELSE 0
      [] client = "token" -> IF o = "reply" THEN 1 ELSE 0
      [] client = "local" -> 1
      [] client = "matrix" -> 1

(* The fetch settles and sendMessage runs to its end: the flag is cleared *)
ChatResponse ==
    \E o \in ChatOutcomes :
        /\ chatsInFlight > 0
        /\ chatsInFlight' = chatsInFlight - 1
        /\ isLoading' = FALSE
        /\ shown' = shown + Added(o)
        /\ serverStatus' = IF client = "matrix" /\ o = "busy" THEN "busy"
                           ELSE IF client = "matrix" /\ o = "network" THEN "error"
                           ELSE serverStatus
        /\ event' = "response"
        /\ UNCHANGED <<serverVars, input, sent, pageVars, serverWakeUpAttempts,
                       checksInFlight, timers, failedSince>>

(* Token client: login, profile creation or logout *)
TokenChange ==
    /\ client = "token"
    /\ token' = ~token
    /\ event' = "auth"
    /\ UNCHANGED <<serverVars, sendVars, client, isOnline, clickPending, healthVars>>

(* Public client: the window's online and offline events *)
OnlineChange ==
    /\ client = "public"
    /\ isOnline' = ~isOnline
    /\ event' = "network"
    /\ UNCHANGED <<serverVars, sendVars, client, token, clickPending, healthVars>>

(* Matrix client, checkServerStatus() called by initializeApp or by the    *)
(* 30 s interval: the fetch of /api/health is sent.                        *)
CheckStart ==
    /\ client = "matrix"
    /\ checksInFlight + Len(timers) < MaxChecks
    /\ checksInFlight' = checksInFlight + 1
    /\ event' = "checkStart"
    /\ UNCHANGED <<serverVars, sendVars, pageVars, serverStatus, serverWakeUpAttempts,
                   timers, failedSince>>

(* A retry timer fires: checkServerStatus() *)
CheckRetry ==
    /\ client = "matrix"
    /\ \E i \in 1..Len(timers) :
          timers' = SubSeq(timers, 1, i - 1) \o SubSeq(timers, i + 1, Len(timers))
    /\ checksInFlight' = checksInFlight + 1
    /\ event' = "checkStart"
    /\ UNCHANGED <<serverVars, sendVars, pageVars, serverStatus, serverWakeUpAttempts,
                   failedSince>>

(* How a health check ends.  A response: 2xx with status 'OK' and a load up *)
(* to 70 or above it, 2xx with another status, or not 2xx.  An exception:   *)
(* AbortSignal.timeout() rejects the fetch with a TimeoutError, an abort    *)
(* by the user agent with an AbortError, a network failure with a TypeError *)
(* whose message names fetch in some browsers ("Failed to fetch") and not   *)
(* in others ("Load failed").                                               *)
CheckOutcomes ==
    {[kind |-> k, name |-> "", fetch |-> FALSE] : k \in {"ok", "busy", "badStatus", "notOk"}}
    \cup {[kind |-> "throw", name |-> "TimeoutError", fetch |-> FALSE],
          [kind |-> "throw", name |-> "AbortError", fetch |-> FALSE],
          [kind |-> "throw", name |-> "TypeError", fetch |-> TRUE],
          [kind |-> "throw", name |-> "TypeError", fetch |-> FALSE]}

(* The server answered that it is up *)
Succeeded(o) == o.kind \in {"ok", "busy"}

(* Math.min(1000 * Math.pow(2, serverWakeUpAttempts - 1), 10000) *)
Backoff(n) == Min(1000 * 2 ^ (n - 1), 10000)

(* The rest of checkServerStatus() *)
CheckEnd ==
    \E o \in CheckOutcomes :
        LET wakeUp == o.kind = "throw" /\ (o.name = "AbortError" \/ o.fetch)
            attempts == IF o.kind \in {"ok", "busy", "badStatus"} THEN 0
                        ELSE IF wakeUp THEN serverWakeUpAttempts + 1
                        ELSE serverWakeUpAttempts
            retry == wakeUp /\ attempts <= MAX_WAKE_UP_ATTEMPTS
        IN
        /\ client = "matrix"
        /\ checksInFlight > 0
        /\ ~Succeeded(o) => failedSince < MaxFailed
        /\ checksInFlight' = checksInFlight - 1
        /\ serverWakeUpAttempts' = attempts
        /\ serverStatus' = CASE o.kind = "ok" -> "connected"
                             [] o.kind = "busy" -> "busy"
                             [] retry -> "waking"
                             [] OTHER -> "error"
        /\ timers' = IF retry THEN Append(timers, Backoff(attempts)) ELSE timers
        /\ failedSince' = IF Succeeded(o) THEN 0 ELSE failedSince + 1
        /\ event' = IF Succeeded(o) THEN "checkOk" ELSE "checkFailed"
        /\ UNCHANGED <<serverVars, sendVars, pageVars>>

-----------------------------------------------------------------------------
(* Start-up.  initializeTables has run: the guest row exists.  The gated   *)
(* server keeps the rows of an earlier run; the cached server drops and    *)
(* re-creates users (and its sequence) on every start, which on a restart  *)
(* also removes the foreign key of chats.  The proxy has no database.      *)
(* Besides the state right after start-up, a run may begin in a state the  *)
(* server is in after it has served some requests:                         *)
(*   Registered : a profile creation that drew id 1 (taken by the guest)   *)
(*                and failed, then the creation of "A" (id 2);             *)
(*   Populated  : then a completed chat turn of user 2 (chat 1) and, in    *)
(*                the gated server, a completed guest turn (chat 2).       *)

Guest == [id |-> GUEST_ID, name |-> "Guest", pin |-> <<"0", "0", "0", "0">>]

Registered == {Guest, [id |-> 2, name |-> "A", pin |-> <<"1", "2", "3", "0">>]}

Hi == <<"h", "i">>

UserTurn ==
    {[id |-> 1, chat_id |-> 1, role |-> "user", content |-> Hi, created_at |-> 2],
     [id |-> 2, chat_id |-> 1, role |-> "assistant", content |-> <<"X">>, created_at |-> 3]}

GuestTurn ==
    {[id |-> 3, chat_id |-> 2, role |-> "user", content |-> Hi, created_at |-> 5],
     [id |-> 4, chat_id |-> 2, role |-> "assistant", content |-> <<"X">>, created_at |-> 6]}

InitFresh ==
    /\ users = (IF variant = "openai" THEN {} ELSE {Guest}) /\ usersSeq = 0
    /\ chats = {} /\ chatsSeq = 0
    /\ messages = {} /\ messagesSeq = 0
    /\ now = 0

InitRegistered ==
    /\ variant = "gated"
    /\ users = Registered /\ usersSeq = 2
    /\ chats = {} /\ chatsSeq = 0
    /\ messages = {} /\ messagesSeq = 0
    /\ now = 0

InitPopulated ==
    /\ variant \in {"gated", "cached"}
    /\ users = Registered /\ usersSeq = 2
    /\ IF variant = "gated"
       THEN /\ chats = {[id |-> 1, user_id |-> 2, created_at |-> 1],
                        [id |-> 2, user_id |-> GUEST_ID, created_at |-> 4]}
            /\ chatsSeq = 2
            /\ messages = UserTurn \cup GuestTurn
            /\ messagesSeq = 4
            /\ now = 6
       ELSE /\ chats = {[id |-> 1, user_id |-> 2, created_at |-> 1]}
            /\ chatsSeq = 1
            /\ messages = UserTurn
            /\ messagesSeq = 2
            /\ now = 3

InitDb ==
    /\ variant \in Variants
    /\ chatsFk \in (IF variant = "gated" THEN {TRUE}
                    ELSE IF variant = "cached" THEN BOOLEAN ELSE {FALSE})
    /\ \/ InitFresh
       \/ InitRegistered
       \/ InitPopulated /\ chatsFk
    /\ deletedChats = {}
    /\ reqs = [s \in Slots |-> Idle]
    /\ issued = 0

NoHits == [k \in UserHeaders |-> 0]

(* The process has just started: nothing cached, nothing counted *)
InitRest ==
    /\ boots = 1
    /\ cache = [c \in CacheContainers |-> {}]
    /\ clock = 0
    /\ cacheOp = [op |-> "none", key |-> << >>, at |-> 0]
    /\ cacheResult = "none"
    /\ cacheModel = [k \in CacheKeys |-> [set |-> FALSE, value |-> "", expiry |-> 0]]

(* No page takes part in a run of the server alone *)
InitServerOnly == InitRest /\ InitPage("matrix")

Init ==
    /\ InitDb
    /\ InitServerOnly
    /\ hits = NoHits /\ profileHits = NoHits /\ processed = 0
    /\ background = 0
    /\ activeConnections = 0
    /\ serverLoad = 0

Next ==
    \E s \in Slots :
        \/ Arrive(s)
        \/ Finish(s)
        \/ Drop(s)
        \/ GatedProfileRoute(s)
        \/ CreateInsert(s)
        \/ LoginQuery(s)
        \/ GatedChatRoute(s)
        \/ GatedChatResolve(s)
        \/ ChatCreate(s)
        \/ ChatSaveUser(s)
        \/ ChatProvider(s)
        \/ ChatSaveAI(s)
        \/ OpenAIChatProvider(s)
        \/ ChatsQuery(s)
        \/ ChatCheck(s)
        \/ MessagesQuery(s)
        \/ ChatDelete(s)

Spec == Init /\ [][Next]_vars

(* The gated server under load: chat requests are followed one by one while *)
(* requests to other routes come and go around the threshold.               *)
InitLoad ==
    /\ variant = "gated"
    /\ chatsFk = TRUE
    /\ InitRegistered
    /\ deletedChats = {}
    /\ reqs = [s \in Slots |-> Idle]
    /\ issued = 0
    /\ InitServerOnly
    /\ hits = NoHits /\ profileHits = NoHits /\ processed = 0
    /\ background = BaseLoad
    /\ activeConnections = BaseLoad
    /\ serverLoad = LoadScore(BaseLoad)

NextLoad ==
    \/ BackgroundArrive
    \/ BackgroundFinish
    \/ BackgroundDrop
    \/ \E s \in Slots :
        \/ ChatArrive(s)
        \/ Finish(s)
        \/ Drop(s)
        \/ GatedChatRoute(s)
        \/ GatedChatResolve(s)
        \/ ChatCreate(s)
        \/ ChatSaveUser(s)
        \/ ChatProvider(s)
        \/ ChatSaveAI(s)

SpecLoad == InitLoad /\ [][NextLoad]_vars

(* A client close to the limit README.md states: it has had NearLimit       *)
(* requests counted in the current window, all sent as user 2.              *)
InitLimit ==
    /\ InitDb
    /\ InitPopulated
    /\ InitServerOnly
    /\ profileHits = NoHits
    /\ hits = [k \in UserHeaders |-> IF k = LimiterKey(<<"2">>) THEN NearLimit ELSE 0]
    /\ processed = NearLimit
    /\ background = 0
    /\ activeConnections = 0
    /\ serverLoad = 0

NextLimit ==
    \/ WindowReset
    \/ \E s \in Slots :
        \/ LimitedArrive(s)
        \/ Finish(s)
        \/ Drop(s)
        \/ GatedChatRoute(s)
        \/ GatedChatResolve(s)
        \/ ChatCreate(s)
        \/ ChatSaveUser(s)
        \/ ChatProvider(s)
        \/ ChatSaveAI(s)
        \/ ChatsQuery(s)

SpecLimit == InitLimit /\ [][NextLimit]_vars

(* The process is stopped and started again against the same database.     *)
(* What lived in memory is gone: the requests in flight, the counters, the *)
(* limiters' stores, the cache.  initializeTables then runs.  Load-gated:  *)
(* every statement is CREATE ... IF NOT EXISTS, an ALTER of the pin        *)
(* column's width, or the guest INSERT ... ON CONFLICT (id) DO NOTHING, so *)
(* the rows stay.  Cached: the users table exists, so it is dropped with   *)
(* CASCADE (which removes the foreign key of chats, not the chats) and     *)
(* created again with a new sequence, and the guest is inserted.           *)
Restart ==
    /\ variant \in {"gated", "cached"}
    /\ boots < MaxBoots
    /\ boots' = boots + 1
    /\ reqs' = [s \in Slots |-> Idle]
    /\ activeConnections' = 0 /\ serverLoad' = 0 /\ background' = 0
    /\ hits' = NoHits /\ profileHits' = NoHits /\ processed' = 0
    /\ cache' = [c \in CacheContainers |-> {}]
    /\ IF variant = "gated"
       THEN /\ users' = IF \E u \in users : u.id = GUEST_ID THEN users
                         ELSE users \cup {Guest}
            /\ UNCHANGED <<usersSeq, chatsFk>>
       ELSE /\ users' = {Guest}
            /\ usersSeq' = 0
            /\ chatsFk' = FALSE
    /\ UNCHANGED <<variant, chatVars, issued, clock, cacheOp, cacheResult, cacheModel,
                   clientVars>>

(* The arrival of a request to a route that reads or writes the users *)
ProfileArrive(s) == ArriveOf(s, {"create", "login"})

(* A server with registered users that is restarted between requests *)
InitRestart ==
    /\ Init
    /\ users = Registered

NextRestart ==
    \/ Restart
    \/ \E s \in Slots :
        \/ ProfileArrive(s)
        \/ Finish(s)
        \/ Drop(s)
        \/ GatedProfileRoute(s)
        \/ CreateInsert(s)
        \/ LoginQuery(s)

SpecRestart == InitRestart /\ [][NextRestart]_vars

(* The load-gated server serving a finite number of chat requests, each of *)
(* which runs to its response and then ends.  The event loop resumes every *)
(* handler whose await has settled, and a response that has been written   *)
(* is either handed to the network or its connection is lost.  Each of     *)
(* these steps changes the request's record, so fairness is stated on reqs. *)
InitLive ==
    /\ Init
    /\ variant = "gated"
    /\ users = Registered /\ chats = {}

NextLive ==
    \E s \in Slots :
        \/ ChatArrive(s)
        \/ Finish(s)
        \/ Drop(s)
        \/ GatedChatRoute(s)
        \/ GatedChatResolve(s)
        \/ ChatCreate(s)
        \/ ChatSaveUser(s)
        \/ ChatProvider(s)
        \/ ChatSaveAI(s)

FairLive ==
    \A s \in Slots :
        /\ WF_reqs(GatedChatRoute(s))
        /\ WF_reqs(GatedChatResolve(s))
        /\ WF_reqs(ChatCreate(s))
        /\ WF_reqs(ChatSaveUser(s))
        /\ WF_reqs(ChatProvider(s))
        /\ WF_reqs(ChatSaveAI(s))
        /\ WF_reqs(Finish(s) \/ Drop(s))

SpecLive == InitLive /\ [][NextLive]_vars /\ FairLive

(* The load-gated server around the threshold, facing a client that has    *)
(* used up its profile attempts of the current window.                     *)
Exhausted == [k \in UserHeaders |-> IF k = LimiterKey(Absent) THEN GatedProfileMax ELSE 0]

InitShed ==
    /\ variant = "gated"
    /\ chatsFk = TRUE
    /\ InitRegistered
    /\ deletedChats = {}
    /\ reqs = [s \in Slots |-> Idle]
    /\ issued = 0
    /\ InitServerOnly
    /\ hits = Exhausted /\ profileHits = Exhausted /\ processed = GatedProfileMax
    /\ background = BaseLoad
    /\ activeConnections = BaseLoad
    /\ serverLoad = LoadScore(BaseLoad)

NextShed ==
    \/ BackgroundArrive
    \/ BackgroundFinish
    \/ BackgroundDrop
    \/ \E s \in Slots :
        \/ ProfileArrive(s)
        \/ Finish(s)
        \/ Drop(s)
        \/ GatedProfileRoute(s)
        \/ CreateInsert(s)
        \/ LoginQuery(s)

SpecShed == InitShed /\ [][NextShed]_vars

(* A page on its own, whatever the server answers *)
InitClient ==
    /\ variant = "gated" /\ chatsFk = TRUE
    /\ InitFresh
    /\ deletedChats = {}
    /\ reqs = [s \in Slots |-> Idle]
    /\ issued = 0
    /\ InitRest
    /\ hits = NoHits /\ profileHits = NoHits /\ processed = 0
    /\ background = 0 /\ activeConnections = 0 /\ serverLoad = 0
    /\ \E k \in ClientKinds : InitPage(k)

NextClient ==
    \/ Type
    \/ sendMessage
    \/ quickPrompt
    \/ QuickPromptTimer
    \/ QuickPromptClick
    \/ ChatResponse
    \/ TokenChange
    \/ OnlineChange
    \/ CheckStart
    \/ CheckRetry
    \/ CheckEnd

SpecClient == InitClient /\ [][NextClient]_vars

(* The cache object on its own, in a cached server that has just started *)
InitCache ==
    /\ Init
    /\ variant = "cached" /\ chatsFk
    /\ users = {Guest}

NextCache == CacheSet \/ CacheGet \/ CacheTick

SpecCache == InitCache /\ [][NextCache]_vars

-----------------------------------------------------------------------------
(* Properties                                                              *)

Responded(s) == reqs[s].pc = "responded"

(* A chat request of one of the two database-backed servers *)
DbChat(s) == reqs[s].kind = "chat" /\ variant \in {"gated", "cached"}

C2_ChatResolution ==
    \A s \in Slots :
        (DbChat(s) /\ Responded(s) /\ reqs[s].status = 200) =>
            LET r == reqs[s] IN
            IF r.userIdNum = GUEST_ID
            THEN Cardinality(r.created) = 1 /\ r.currentChatId \in r.created
            ELSE IF r.chatsBefore > 0
                 THEN r.created = {} /\ r.currentChatId = r.latestBefore
                 ELSE Cardinality(r.created) = 1 /\ r.currentChatId \in r.created

(* C3: GET /api/chats/:id by the chat's owner answers with the messages of  *)
(* that chat and of no other, in ascending order of creation.               *)
C3_OwnerGetsMessages ==
    \A s \in Slots :
        (reqs[s].kind = "messages" /\ Responded(s) /\ reqs[s].owned) =>
            LET r == reqs[s] IN
            /\ r.status = 200
            /\ \A i \in 1..Len(r.rows) : r.rows[i].chat_id = r.currentChatId
            /\ \A i, j \in 1..Len(r.rows) :
                  i < j => r.rows[i].created_at < r.rows[j].created_at


(* C4: after a successful DELETE of a chat no message row of that chat      *)
(* remains, and a GET of that chat by the same user whose ownership check   *)
(* runs after the deletion is answered 403 and discloses no message.        *)
DeletedIds == {d.id : d \in deletedChats}

C4_NoOrphans == \A m \in messages : m.chat_id \notin DeletedIds

C4_LaterGetDenied ==
    \A s \in Slots :
        (/\ reqs[s].kind = "messages" /\ reqs[s].pc = "check"
         /\ reqs'[s].pc # "check"
         /\ [id |-> reqs[s].currentChatId, user_id |-> reqs[s].userIdNum] \in deletedChats)
        => (reqs'[s].status = 403 /\ reqs'[s].rows = << >>)

C4_DeleteCascades == [](C4_NoOrphans) /\ [][C4_LaterGetDenied]_vars

(* C4 witness: the owner has deleted a chat and a later GET of it by the    *)
(* same user has been answered 403.                                         *)
C4_Witness ==
    \E s \in Slots :
        /\ reqs[s].kind = "messages" /\ Responded(s) /\ reqs[s].status = 403
        /\ [id |-> reqs[s].currentChatId, user_id |-> reqs[s].userIdNum] \in deletedChats
        /\ C4_NoOrphans

(* C5: a chat created by a guest turn is in no chat list returned by        *)
(* GET /api/chats, and none of its messages is in a result of               *)
(* GET /api/chats/:id (both routes refuse the guest id, so every caller     *)
(* that is answered is another user).                                       *)
GuestChatIds == {c.id : c \in {d \in chats : d.user_id = GUEST_ID}}

C5_GuestChatsPrivate ==
    \A s \in Slots :
        (Responded(s) /\ reqs[s].status = 200) =>
            /\ reqs[s].kind = "chats" =>
                  \A i \in 1..Len(reqs[s].rows) :
                      /\ reqs[s].rows[i].user_id # GUEST_ID
                      /\ reqs[s].rows[i].id \notin GuestChatIds
            /\ reqs[s].kind = "messages" =>
                  \A i \in 1..Len(reqs[s].rows) :
                      reqs[s].rows[i].chat_id \notin GuestChatIds

(* C5 witness: a followed guest turn has created a chat and stored its      *)
(* message while another user has been served a chat list.                  *)
C5_Witness ==
    \E s, t \in Slots :
        /\ reqs[s].kind = "chat" /\ reqs[s].userIdNum = GUEST_ID
        /\ reqs[s].created # {} /\ reqs[s].wrote # {}
        /\ reqs[t].kind = "chats" /\ Responded(t) /\ reqs[t].status = 200
        /\ reqs[t].rows # << >>

(* C6: on a provider quota error the database-backed servers answer 429     *)
(* with a non-empty fallbackResponse, and the turn has added no row to      *)
(* messages other than its user message: no assistant message is stored.    *)
C6_QuotaError ==
    \A s \in Slots :
        (DbChat(s) /\ reqs[s].perr = "insufficient_quota") =>
            /\ Responded(s)
            /\ reqs[s].status = 429
            /\ reqs[s].error = "API_QUOTA_EXCEEDED"
            /\ reqs[s].fallback # ""
            /\ Cardinality(reqs[s].wrote) <= 1
            /\ \A w \in reqs[s].wrote : w.role = "user"

(* C6 witness: a turn that stored its user message has met the quota error *)
C6_Witness ==
    \E s \in Slots :
        /\ DbChat(s) /\ reqs[s].perr = "insufficient_quota"
        /\ reqs[s].status = 429
        /\ \E w \in reqs[s].wrote : w.role = "user"


PastGate(s) == variant = "gated" /\ reqs[s].kind = "chat" /\ reqs[s].pc \notin {"idle", "route"}

C8_Original ==
    \A s \in Slots :
        PastGate(s) => (reqs[s].status = 503 <=> reqs[s].xload > 70)

(* C8 amended: a chat request is rejected with 503 SERVER_BUSY exactly when *)
(* the load score in force when checkServerLoad runs exceeds 70, that is    *)
(* the score computed at the most recent arrival of any request, which may  *)
(* be later than the request's own arrival; a rejected request writes       *)
(* nothing to the database and does not call the provider.                  *)
C8_Gate ==
    \A s \in Slots :
        PastGate(s) =>
            /\ reqs[s].status = 503 <=> reqs[s].gateLoad > 70
            /\ reqs[s].status = 503 =>
                  /\ reqs[s].error = "SERVER_BUSY"
                  /\ Responded(s)
                  /\ reqs[s].wrote = {} /\ reqs[s].created = {}
                  /\ reqs[s].providerCalls = 0

(* C8 witness: a request that arrived at or below the threshold has been    *)
(* rejected because a later arrival raised the score before its gate ran.   *)
C8_Witness ==
    \E s \in Slots :
        /\ PastGate(s) /\ reqs[s].status = 503
        /\ reqs[s].xload <= 70 /\ reqs[s].gateLoad > 70

(* C9: activeConnections equals the number of requests that have started    *)
(* and not yet ended, however they end, and is never negative.              *)
Started == background + Cardinality({s \in Slots : InFlight(s)})

C9_CounterMatches ==
    variant = "gated" => (activeConnections = Started /\ activeConnections >= 0)

(* C10: serverLoad is always an integer in 0..100; it changes only when a   *)
(* request arrives, to min(100, round(activeConnections / 50 * 100)) of the *)
(* counter just incremented (twice the counter, capped); and the            *)
(* X-Server-Load header of a request is the score computed at that          *)
(* request's own arrival, whatever arrives later.                           *)
C10_Range == serverLoad \in 0..100

C10_Step ==
    /\ IF activeConnections' = activeConnections + 1
       THEN serverLoad' = (IF 2 * activeConnections' > 100 THEN 100
                           ELSE 2 * activeConnections')
       ELSE serverLoad' = serverLoad
    /\ \A s \in Slots :
          /\ (~InFlight(s) /\ reqs'[s].pc # "idle") => reqs'[s].xload = serverLoad'
          /\ (InFlight(s) /\ reqs'[s].pc # "idle") => reqs'[s].xload = reqs[s].xload

C10_LoadScore == [](C10_Range) /\ [][C10_Step]_vars

(* C10 witness: a request in flight carries the score of its own arrival    *)
(* after a later arrival has changed serverLoad.                            *)
C10_Witness ==
    \E s \in Slots :
        /\ InFlight(s)
        /\ reqs[s].xload = 2 * (BaseLoad + 1)
        /\ serverLoad > reqs[s].xload

C12_Step ==
    \A s \in Slots :
        LET r == reqs[s]
            q == reqs'[s]
        IN
        /\ (/\ r.kind \in {"messages", "delete"} /\ r.pc = "check" /\ q.pc # "check"
            /\ r.userIdNum # NaN /\ r.currentChatId # NaN
            /\ ~\E c \in chats : c.id = r.currentChatId /\ c.user_id = r.userIdNum)
           => /\ q.pc = "responded" /\ q.status = 403 /\ q.error = "Access denied"
              /\ q.rows = << >>
              /\ chats' = chats /\ messages' = messages
        /\ (/\ r.pc = "idle" /\ q.kind \in {"messages", "delete"}
            /\ q.hdr \in {Absent, <<"1">>})
           => /\ q.pc = "responded" /\ q.status = 401
              /\ q.rows = << >>
              /\ chats' = chats /\ messages' = messages

C12_NonOwnerDenied == [][C12_Step]_vars

(* C12 witness: a DELETE of an existing chat by a user who does not own it  *)
(* has been answered 403 and the chat is still there.                       *)
C12_Witness ==
    \E s \in Slots :
        /\ reqs[s].kind = "delete" /\ Responded(s) /\ reqs[s].status = 403
        /\ \E c \in chats : c.id = reqs[s].currentChatId /\ c.user_id # reqs[s].userIdNum

(* C13: GET /api/chats of a non-guest caller is answered with exactly the   *)
(* chat rows the caller owns when the query runs, newest first: a chat      *)
(* created by an earlier turn is in the list, a chat deleted earlier is     *)
(* not.                                                                     *)
C13_Step ==
    \A s \in Slots :
        LET r == reqs[s]
            q == reqs'[s]
            caller == DbInt(q.hdr)
        IN
        (/\ q.kind = "chats" /\ r.pc # "responded" /\ q.pc = "responded"
         /\ q.hdr # Absent /\ caller \notin {NaN, GUEST_ID})
        => /\ q.status = 200
           /\ {q.rows[i] : i \in 1..Len(q.rows)} = {c \in chats' : c.user_id = caller}
           /\ \A i, j \in 1..Len(q.rows) :
                 i < j => q.rows[i].created_at > q.rows[j].created_at

C13_ChatList == [][C13_Step]_vars

(* C14: in the database-backed servers each recognised class of provider    *)
(* error is answered with its fixed status and its code in the body,        *)
(* together with a canned non-empty fallbackResponse and nothing of the     *)
(* provider's own error text: quota exceeded 429, invalid key 500, rate     *)
(* limited 429, model unavailable 500.                                      *)
C14_ProviderErrors ==
    \A s \in Slots :
        (DbChat(s) /\ reqs[s].providerCalls > 0 /\ ~reqs[s].pok) =>
            LET r == reqs[s]
                canned == Responded(s) /\ r.fallback # "" /\ r.details = ""
                          /\ r.text = "" /\ (r.pmsg # "" => r.error # r.pmsg)
            IN
            /\ r.perr = "insufficient_quota" =>
                  r.status = 429 /\ r.error = "API_QUOTA_EXCEEDED" /\ canned
            /\ r.perr = "invalid_api_key" =>
                  r.status = 500 /\ r.error = "API_KEY_INVALID" /\ canned
            /\ r.perr = "rate_limit_exceeded" =>
                  r.status = 429 /\ r.error = "API_RATE_LIMIT" /\ canned
            /\ (r.perr = "model_decommissioned" \/ r.ptype = "invalid_request_error") =>
                  r.status = 500 /\ r.error = "MODEL_ERROR" /\ canned

(* C14 witness: a turn has met the provider's rate limit and was answered 429 *)
C14_Witness ==
    \E s \in Slots :
        /\ DbChat(s) /\ reqs[s].perr = "rate_limit_exceeded"
        /\ reqs[s].status = 429 /\ reqs[s].fallback # ""

(* C15: a provider failure outside the recognised classes, and any other    *)
(* failure inside the chat handler, is answered 500 with a generic message: *)
(* nothing in the body is the provider's or the exception's own text.       *)
Recognised(r) ==
    \/ r.perr \in {"insufficient_quota", "invalid_api_key", "rate_limit_exceeded",
                   "model_decommissioned"}
    \/ r.ptype = "invalid_request_error"

GenericErrors == {"Failed to process message", "Groq API error", "Failed to process chat"}

C15_GenericError ==
    \A s \in Slots :
        LET r == reqs[s] IN
        /\ (r.kind = "chat" /\ r.providerCalls > 0 /\ ~r.pok
            /\ (variant = "openai" \/ ~Recognised(r)))
           => /\ Responded(s) /\ r.status = 500
              /\ r.error \in GenericErrors
              /\ r.details = ""
              /\ r.pmsg # "" => r.error # r.pmsg
        /\ (r.kind = "chat" /\ Responded(s) /\ r.status = 500 /\ r.providerCalls = 0)
           => r.error \in GenericErrors /\ r.details = ""

Persists(r) ==
    /\ r.kind = "chat" /\ variant \in {"gated", "cached"}
    /\ ~(variant = "cached" /\ r.userIdNum = GUEST_ID)

C17_Step ==
    \A s \in Slots :
        LET r == reqs[s]
            q == reqs'[s]
        IN
        /\ (Persists(r) /\ q.providerCalls > r.providerCalls) =>
              \E u \in r.wrote : u.role = "user" /\ u.chat_id = r.currentChatId
        /\ (Persists(q) /\ r.pc # "responded" /\ q.pc = "responded" /\ q.status = 200) =>
              \E u, a \in messages' :
                  /\ u.role = "user" /\ a.role = "assistant"
                  /\ u.chat_id = q.chatId /\ a.chat_id = q.chatId
                  /\ u.content = q.message /\ a.content = <<q.x>>
                  /\ u.id < a.id /\ u.created_at < a.created_at
                  /\ {[id |-> u.id, role |-> "user", chat_id |-> q.chatId],
                      [id |-> a.id, role |-> "assistant", chat_id |-> q.chatId]} = q.wrote

C17_WriteOrder == [][C17_Step]_vars

(* C17 witness: a persisting turn has been answered with success after two inserts *)
C17_Witness ==
    \E s \in Slots :
        /\ Persists(reqs[s]) /\ Responded(s) /\ reqs[s].status = 200
        /\ Cardinality(reqs[s].wrote) = 2

C19_TokenRequired ==
    \A s \in Slots :
        (reqs[s].kind = "chat" /\ reqs[s].bearer = "none" /\ Responded(s)) =>
            reqs[s].status # 200

(* C20: within one window no client has more than 100 of its requests to    *)
(* /api/ let through, at any server load.                                   *)
C20_RateLimit == processed <= ReadmeLimit

(* C21: a POST /api/chat without X-User-ID is handled as guest traffic: it  *)
(* gets as far as a request of user 1 does (the provider is called, and a   *)
(* completion is answered with success), and any chat it creates belongs    *)
(* to the guest.                                                            *)
C21_MissingHeaderIsGuest ==
    \A s \in Slots :
        LET r == reqs[s] IN
        (/\ DbChat(s) /\ r.hdr = Absent /\ r.message # << >>
         /\ Responded(s) /\ r.status \notin {503, 429})
        => /\ r.providerCalls = 1
           /\ r.pok => r.status = 200
           /\ \A c \in chats : c.id \in r.created => c.user_id = GUEST_ID

(* C27: when two first chat requests of one authenticated user who has no   *)
(* chat overlap in the load-gated server, only one of them creates a chat    *)
(* and the other stores its user message in that chat.                       *)
C27_OneFirstChat ==
    \A s, t \in Slots :
        (/\ s # t /\ variant = "gated"
         /\ reqs[s].kind = "chat" /\ reqs[t].kind = "chat"
         /\ reqs[s].userIdNum = reqs[t].userIdNum
         /\ reqs[s].userIdNum \notin {NaN, GUEST_ID, 0})
        => (reqs[s].created # {} =>
               /\ reqs[t].created = {}
               /\ \A w \in reqs[t].wrote :
                     w.role = "user" => w.chat_id \in reqs[s].created)

(* C29: a profile creation whose name no row carries and whose PIN is four   *)
(* digits is answered 200 with a token and a user whose id is not the        *)
(* guest's.                                                                  *)
C29_CreateSucceeds ==
    [][\A s \in Slots :
          LET r == reqs[s]
              q == reqs'[s]
          IN
          (/\ r.kind = "create" /\ r.pc = "insert" /\ q.pc = "responded"
           /\ ValidPin(r.pin)
           /\ ~\E u \in users : u.name = r.name)
          => /\ q.status = 200 /\ q.token
             /\ q.userIdNum # GUEST_ID
             /\ \E u \in users' : u.id = q.userIdNum /\ u.name = r.name]_vars

(* C25: for a key the handlers use, getWithExpiry returns the value last    *)
(* passed to setWithExpiry while its ttl has not elapsed, returns null and   *)
(* leaves no entry once it has, and returns null for a key never set.        *)
C25_RoundTrip ==
    (cacheOp.op = "get" /\ cacheOp.key \in HandlerKeys) =>
        LET m == cacheModel[cacheOp.key] IN
        /\ ~m.set => cacheResult = "null"
        /\ (m.set /\ cacheOp.at < m.expiry) => cacheResult = m.value
        /\ (m.set /\ cacheOp.at > m.expiry) =>
              /\ cacheResult = "null"
              /\ \A c \in CacheContainers : ~\E e \in cache[c] : e.key = cacheOp.key

(* C26: a restart leaves every user, chat and message row in place.         *)
C26_RestartKeepsRows ==
    [][boots' > boots =>
          /\ users \subseteq users'
          /\ chats \subseteq chats'
          /\ messages \subseteq messages']_vars

(* C28: once requests have stopped arriving and every started request has   *)
(* ended, activeConnections returns to 0.                                    *)
Quiet == issued = MaxRequests /\ \A s \in Slots : ~InFlight(s)

C28_CounterDrains == Quiet ~> (activeConnections = 0)

(* C30: at any load, a request to /api/profile/create or /api/profile/login  *)
(* of a client whose profile attempts are used up is counted and answered    *)
(* 429, never handed to the handler.                                         *)
C30_LimitersAtAnyLoad ==
    [][\A s \in Slots :
          LET r == reqs[s]
              q == reqs'[s]
              k == LimiterKey(r.hdr)
          IN
          (/\ ProfileLimited(r) /\ r.pc = "route" /\ q.kind = r.kind /\ q.pc # "route"
           /\ profileHits[k] >= ProfileMax)
          => /\ q.pc = "responded" /\ q.status = 429
             /\ hits'[k] = hits[k] + 1]_vars

(* C22: a page never has two chat requests in flight, and a sendMessage      *)
(* invoked while the flag is set sends nothing and adds nothing.             *)
SendEvents == {"send", "quick"}

C22_OneInFlight ==
    [][/\ chatsInFlight' <= 1
       /\ (event' \in SendEvents /\ isLoading) =>
             /\ chatsInFlight' = chatsInFlight
             /\ sent' = sent
             /\ shown' = shown]_vars

(* sendMessage has been invoked with a text in the field while a request    *)
(* was in flight.                                                           *)
C22_Witness ==
    /\ event \in SendEvents /\ isLoading /\ chatsInFlight = 1
    /\ Trim(input) # << >>

(* C23: a health check that fails as the n-th in a row sets a retry timer of *)
(* min(1000 * 2^(n-1), 10000) ms when n <= 5, and when n > 5 sets the status *)
(* to 'error' and no timer.                                                  *)
C23_Backoff ==
    [][(event' = "checkFailed" /\ checksInFlight' < checksInFlight) =>
          IF failedSince' <= MAX_WAKE_UP_ATTEMPTS
          THEN timers' = Append(timers, Backoff(failedSince'))
          ELSE serverStatus' = "error" /\ timers' = timers]_vars

(* C24: the status 'error' is left only by a successful health check, and    *)
(* while it lasts sendMessage sends nothing and adds nothing.                *)
C24_ErrorSticks ==
    [][serverStatus = "error" =>
          /\ serverStatus' = "error" \/ event' = "checkOk"
          /\ event' \in SendEvents =>
                (chatsInFlight' = chatsInFlight /\ shown' = shown)]_vars

=============================================================================
